---- MODULE Spec2Model ----
(***************************************************************************)
(* Model of scripts/sanitize_codebase.py (class CodeSanitizer).            *)
(*                                                                         *)
(* A text is a sequence of lexemes.  A lexeme is either a single character *)
(* the patterns single out ("/", "*", ".", "#", "@", "!", ":", "-", a      *)
(* white-space character, an emoji) or a whole word; a word is any other   *)
(* lexeme.  Two adjacent word lexemes stand for their concatenation.       *)
(* The regular expressions of the script are kept as syntax trees over     *)
(* lexemes and are run by a backtracking matcher with Python's priorities  *)
(* (greedy repetition, ordered alternation, leftmost match).  A word is    *)
(* matched whole: the texts drawn below hold no word that merely begins    *)
(* or ends with a word of a pattern.                                       *)
(***************************************************************************)
EXTENDS Integers, Sequences, FiniteSets, TLC

NL == "\n"
SP == " "
SL == "/"

\* \s of Python's re on str.
WS == {" ", "\t", "\n", "\r"}

\* [\U0001F300-\U0001F9FF] (two representatives of the range).
Emoji == {"<e1>", "<e2>"}

\* Lexemes that are not word characters (\w matches every other lexeme).
NonWord == WS \cup Emoji \cup {"/", "*", ".", "#", "@", "!", ":", "-"}

\* str.lower() on a lexeme (the effect of re.IGNORECASE on a literal).
Lower(c) ==
  CASE c = "AI" -> "ai"
    [] c = "This" -> "this"
    [] c = "The" -> "the"
    [] c = "TODO" -> "todo"
    [] c = "Generated" -> "generated"
    [] c = "Placeholder" -> "placeholder"
    [] c = "Initialize" -> "initialize"
    [] c = ".JS" -> ".js"
    [] c = ".TXT" -> ".txt"
    [] OTHER -> c

LowerText(s) == [i \in 1..Len(s) |-> Lower(s[i])]

(***************************************************************************)
(* Regular expressions.                                                    *)
(***************************************************************************)
Ch(S) == [t |-> "set", s |-> S]
NotCh(S) == [t |-> "nset", s |-> S]
Cat(rs) == [t |-> "seq", r |-> rs]
Rep(r, min) == [t |-> "rep", r |-> r, min |-> min, max |-> -1]
Opt(r) == [t |-> "rep", r |-> r, min |-> 0, max |-> 1]
Alt(rs) == [t |-> "alt", r |-> rs]
Bol == [t |-> "bol"]
Eol == [t |-> "eol"]
W(w) == Ch({w})
S0 == Rep(Ch(WS), 0)
S1 == Rep(Ch(WS), 1)

Max2(a, b) == IF a > b THEN a ELSE b

\* The element of a one-element set.  Val({e(v) : v \in {x}}) is e(x) with
\* x worked out once, however often e uses it.
Val(S) == CHOOSE v \in S : TRUE

RECURSIVE DedupFrom(_, _, _)
DedupFrom(L, k, seen) ==
  IF k > Len(L) THEN <<>>
  ELSE IF L[k] \in seen THEN DedupFrom(L, k + 1, seen)
  ELSE <<L[k]>> \o DedupFrom(L, k + 1, seen \cup {L[k]})

Dedup(L) == Val({DedupFrom(v, 1, {}) : v \in {L}})

\* ^ and $ at position i of s (i is the index of the next lexeme to read).
AtBol(s, i, ml) == i = 1 \/ (ml /\ i > 1 /\ s[i - 1] = NL)
AtEol(s, i, ml) ==
  \/ i = Len(s) + 1
  \/ i = Len(s) /\ s[i] = NL
  \/ ml /\ i <= Len(s) /\ s[i] = NL

RECURSIVE Ends(_, _, _, _)
RECURSIVE SeqEnds(_, _, _, _, _)
RECURSIVE SeqEndsEach(_, _, _, _, _, _)
RECURSIVE AltEnds(_, _, _, _, _)
RECURSIVE RepEnds(_, _, _, _, _, _)
RECURSIVE RepEndsEach(_, _, _, _, _, _, _, _)

\* The positions at which a match of re that starts at i can end, in the
\* order in which a backtracking matcher finds them (ml: re.MULTILINE).
Ends(re, s, i, ml) ==
  CASE re.t = "set" -> IF i <= Len(s) /\ s[i] \in re.s THEN <<i + 1>> ELSE <<>>
    [] re.t = "nset" -> IF i <= Len(s) /\ s[i] \notin re.s THEN <<i + 1>> ELSE <<>>
    [] re.t = "bol" -> IF AtBol(s, i, ml) THEN <<i>> ELSE <<>>
    [] re.t = "eol" -> IF AtEol(s, i, ml) THEN <<i>> ELSE <<>>
    [] re.t = "seq" -> SeqEnds(re.r, 1, s, i, ml)
    [] re.t = "alt" -> Dedup(AltEnds(re.r, 1, s, i, ml))
    [] re.t = "rep" -> RepEnds(re.r, re.min, re.max, s, i, ml)

SeqEnds(rs, k, s, i, ml) ==
  IF k > Len(rs) THEN <<i>>
  ELSE Val({Dedup(SeqEndsEach(rs, k, s, L, 1, ml)) : L \in {Ends(rs[k], s, i, ml)}})

SeqEndsEach(rs, k, s, L, n, ml) ==
  IF n > Len(L) THEN <<>>
  ELSE SeqEnds(rs, k + 1, s, L[n], ml) \o SeqEndsEach(rs, k, s, L, n + 1, ml)

AltEnds(rs, k, s, i, ml) ==
  IF k > Len(rs) THEN <<>>
  ELSE Ends(rs[k], s, i, ml) \o AltEnds(rs, k + 1, s, i, ml)

\* The length of the longest run of lexemes of the class cls from i on.
RunLen(cls, s, i) ==
  CHOOSE m \in 0..(Len(s) + 1 - i) :
    /\ \A j \in i..(i + m - 1) : (s[j] \in cls.s) <=> (cls.t = "set")
    /\ i + m <= Len(s) => ((s[i + m] \in cls.s) <=> (cls.t = "nset"))

\* Greedy repetition {min,} of one class: the longest run first, then each
\* shorter one down to min.
ClassRepEnds(cls, min, s, i) ==
  Val({[k \in 1..(run + 1 - min) |-> i + run + 1 - k] : run \in {RunLen(cls, s, i)}})

\* Greedy repetition {min,max} (max < 0: unbounded): one more round first.
RepEnds(r, min, max, s, i, ml) ==
  IF r.t \in {"set", "nset"} /\ max < 0 THEN ClassRepEnds(r, min, s, i)
  ELSE
  Dedup((IF max = 0 THEN <<>>
          ELSE Val({RepEndsEach(r, min, max, s, i, L, 1, ml) :
                      L \in {Ends(r, s, i, ml)}}))
        \o (IF min = 0 THEN <<i>> ELSE <<>>))

RepEndsEach(r, min, max, s, i, L, n, ml) ==
  IF n > Len(L) THEN <<>>
  ELSE (IF L[n] > i
          THEN RepEnds(r, Max2(min - 1, 0), IF max < 0 THEN max ELSE max - 1,
                       s, L[n], ml)
          ELSE <<>>)
       \o RepEndsEach(r, min, max, s, i, L, n + 1, ml)

RECURSIVE SplitFrom(_, _, _, _, _)

\* The match of the sequence rs that starts at i, as the positions
\* <<i, p1, .., pn>> between its components (component k matched
\* s[p(k-1) .. pk - 1]); <<>> when there is none.  The components are the
\* pattern's top-level items, so its groups can be read off the positions.
\* The match is the one of the first end of component k, in the matcher's
\* order, from which the rest of the pattern matches.
SplitFrom(rs, k, s, i, ml) ==
  IF k > Len(rs) THEN <<i>>
  ELSE Val({IF found = <<>> THEN <<>> ELSE <<i>> \o found[1] :
              found \in {SelectSeq([n \in 1..Len(L) |->
                                      SplitFrom(rs, k + 1, s, L[n], ml)],
                                   LAMBDA sp : sp # <<>>) :
                           L \in {Ends(rs[k], s, i, ml)}}})

\* The positions at which a match of the components k.. of rs can end when
\* the components before k have matched up to a position of P.
RECURSIVE ReachFrom(_, _, _, _, _)
ReachFrom(rs, k, s, P, ml) ==
  IF k > Len(rs) \/ P = {} THEN P
  ELSE ReachFrom(rs, k + 1, s,
                 UNION {{L[n] : n \in 1..Len(L)} :
                          L \in {Ends(rs[k], s, p, ml) : p \in P}},
                 ml)

\* re.search(pattern, s) is not None: a match starts somewhere.
Search(rs, s, ml) ==
  \E v \in {s} : ReachFrom(rs, 1, v, 1..(Len(v) + 1), ml) # {}

\* The text a replacement template stands for: a literal lexeme, or \g for
\* the group that is component g of the pattern.
RECURSIVE Expand(_, _, _, _)
Expand(tpl, k, s, sp) ==
  IF k > Len(tpl) THEN <<>>
  ELSE (IF "grp" \in DOMAIN tpl[k]
          THEN SubSeq(s, sp[tpl[k].grp], sp[tpl[k].grp + 1] - 1)
          ELSE <<tpl[k].lit>>)
       \o Expand(tpl, k + 1, s, sp)

Lit(c) == [lit |-> c]
Grp(g) == [grp |-> g]

\* The match of rs at each position of s, as SplitFrom gives it.
MatchesAt(rs, s, ml) ==
  SubSeq([pos \in 1..Len(s) |-> SplitFrom(rs, 1, s, pos, ml)], 1, Len(s))

\* M[pos] is a match that re.subn replaces: there is one and it is not empty.
Hit(M, pos) == M[pos] # <<>> /\ M[pos][Len(M[pos])] # pos

\* re.subn scanning from pos, M being the matches at each position: the
\* leftmost match is replaced and the scan goes on behind it.  The text it
\* builds, and the positions at which it replaced.
RECURSIVE SubnFrom(_, _, _, _)
SubnFrom(M, tpl, s, pos) ==
  IF pos > Len(s) THEN <<>>
  ELSE IF Hit(M, pos)
    THEN Expand(tpl, 1, s, M[pos]) \o SubnFrom(M, tpl, s, M[pos][Len(M[pos])])
  ELSE <<s[pos]>> \o SubnFrom(M, tpl, s, pos + 1)

RECURSIVE SubnAt(_, _)
SubnAt(M, pos) ==
  IF pos > Len(M) THEN <<>>
  ELSE IF Hit(M, pos) THEN <<pos>> \o SubnAt(M, M[pos][Len(M[pos])])
  ELSE SubnAt(M, pos + 1)

\* re.subn(pattern, template, s): the new text and the number of
\* substitutions made.
Subn(rs, tpl, s, ml) ==
  Val({[text |-> SubnFrom(M, tpl, s, 1), n |-> Len(SubnAt(M, 1))] :
         M \in {MatchesAt(rs, s, ml)}})

\* len(re.findall(pattern, s)).
FindCount(rs, s) == Subn(rs, <<>>, s, FALSE).n

(***************************************************************************)
(* The pattern tables (lines 27-107).  Patterns used with re.IGNORECASE    *)
(* are written in lower case and run on the lower-cased text.              *)
(***************************************************************************)
AINames == {"ai", "gpt", "claude", "copilot", "chatgpt", "openai", "anthropic"}
AIVerbs == {"generated", "created", "wrote", "assisted", "helped"}
The == Opt(Cat(<<W("the"), S1>>))
Units == {"function", "method", "class", "file", "module"}
Modal == Alt(<<W("will"), W("can"), W("should"), Cat(<<W("need"), S1, W("to")>>)>>)
Openers == {"here", "now", "first", "next", "then", "finally"}
Requested ==
  Alt(<<W("requested"), Cat(<<W("per"), S1, W("your"), S1, W("request")>>),
        Cat(<<W("you"), S1, W("asked")>>)>>)
IveDone == {"added", "created", "implemented", "updated", "fixed"}

\* ^\s*//\s* followed by body, and ^\s*# \s* followed by body.
SlashLine(body) == <<Bol, S0, W(SL), W(SL), S0>> \o body
HashLine(body) == <<Bol, S0, W("#"), W(SP), S0>> \o body

AI_LINE_PATTERNS ==
  << SlashLine(<<Ch(AINames), S0, Ch(AIVerbs)>>),
     SlashLine(<<W("generated"), S1, W("by"), S1,
                 Ch({"ai", "gpt", "claude", "copilot", "chatgpt", "assistant"})>>),
     SlashLine(<<W("created"), S1, Ch({"with", "using"}), S1,
                 Ch({"ai", "gpt", "claude", "copilot", "chatgpt"})>>),
     SlashLine(<<W("auto"), Opt(W("-")), W("generated"), S0, Eol>>),
     SlashLine(<<W("this"), S1,
                 Ch({"code", "function", "method", "class", "component"}), S1,
                 W("was"), S1, Ch({"generated", "created", "written"}), S1,
                 W("by")>>),
     HashLine(<<Ch(AINames), S0, Ch(AIVerbs)>>),
     SlashLine(<<W("initialize"), S1, The, Ch({"variable", "variables"}), S0, Eol>>),
     SlashLine(<<W("return"), S1, The, Ch({"result", "results"}), S0, Eol>>),
     SlashLine(<<W("import"), S1, The, Opt(Cat(<<W("required"), S1>>)),
                 Ch({"module", "modules", "dependencies", "packages"}), S0, Eol>>),
     SlashLine(<<W("export"), S1, The,
                 Ch({"module", "function", "class", "component"}), S0, Eol>>),
     SlashLine(<<W("define"), S1, The,
                 Ch({"function", "method", "class", "variable"}), S0, Eol>>),
     SlashLine(<<W("create"), S1, Opt(Cat(<<W("a"), S1>>)),
                 Opt(Cat(<<W("new"), S1>>)), Ch({"instance", "object"}), S0, Eol>>),
     SlashLine(<<W("call"), S1, The, Ch({"function", "method"}), S0, Eol>>),
     SlashLine(<<W("check"), S1, W("if"), S0, Eol>>),
     SlashLine(<<W("loop"), S1, Ch({"through", "over"}), S0, Eol>>),
     SlashLine(<<W("handle"), S1, The, W("error"), S0, Eol>>),
     SlashLine(<<W("set"), S1, The, Ch({"value", "state"}), S0, Eol>>),
     SlashLine(<<W("get"), S1, The, Ch({"value", "data"}), S0, Eol>>),
     SlashLine(<<W("update"), S1, The, Ch({"state", "value"}), S0, Eol>>),
     SlashLine(<<W("add"), S1, The, Ch({"item", "element"}), S0, Eol>>),
     SlashLine(<<W("remove"), S1, The, Ch({"item", "element"}), S0, Eol>>),
     SlashLine(<<W("this"), S1, W("is"), S1, Ch({"a", "the"}), S1,
                 Rep(NotCh(NonWord), 1), S1,
                 Ch({"function", "method", "class", "component"}), S0, Eol>>),
     SlashLine(<<W("end"), S1, W("of"), S1, Ch(Units), S0, Eol>>),
     SlashLine(<<W("start"), S1, W("of"), S1, Ch(Units), S0, Eol>>),
     SlashLine(<<Ch(Openers), S1, Ch({"we", "i"}), S1, Modal>>),
     SlashLine(<<W("as"), S1, Requested>>),
     SlashLine(<<W("based"), S1, W("on"), S1, Ch({"your", "the"}), S1,
                 Ch({"requirement", "requirements", "request", "specification",
                     "specifications"})>>),
     SlashLine(<<W("i've"), S1, Ch(IveDone)>>),
     SlashLine(<<W("let's"), S1>>),
     SlashLine(<<W("we"), S1, Ch({"need", "can", "should", "will"}), S1>>),
     HashLine(<<Ch(Openers), S1, Ch({"we", "i"}), S1, Modal>>),
     HashLine(<<W("as"), S1, Requested>>),
     HashLine(<<W("i've"), S1, Ch(IveDone)>>),
     HashLine(<<W("let's"), S1>>),
     <<Bol, S0, W(SL), W(SL), S0, Eol>> >>

AI_TELLTALE_PATTERNS ==
  << <<W("certainly"), W("!")>>,
     <<W("sure"), W("!")>>,
     <<W("happy"), W(SP), W("to"), W(SP), W("help")>>,
     <<W("here's"), W(SP), Ch({"a", "an", "the", "how"})>>,
     <<W("i'll"), W(SP), Ch({"help", "create", "implement", "fix", "add"})>>,
     <<W("let"), W(SP), W("me"), W(SP),
       Ch({"help", "create", "implement", "fix", "add", "know"})>>,
     <<W("as"), W(SP), W("an"), W(SP), W("ai")>>,
     <<W("as"), W(SP), W("a"), W(SP), W("language"), W(SP), W("model")>>,
     <<W("i"), W(SP), W("don't"), W(SP), W("have"), W(SP),
       Alt(<<W("access"), Cat(<<W("the"), W(SP), W("ability")>>)>>)>> >>

\* (pattern, replacement) pairs; the groups a template uses are components.
AI_REPLACE_PATTERNS ==
  << [re |-> <<W(SL), W(SL), S0, W("This"), S1,
               Ch({"function", "method", "variable", "constant"}), S1>>,
      tpl |-> <<Lit(SL), Lit(SL), Lit(SP)>>],
     [re |-> <<W(SL), W(SL), S0, W("The"), S1, W("following"), S1,
               Ch({"code", "section"}), S1>>,
      tpl |-> <<Lit(SL), Lit(SL), Lit(SP)>>],
     [re |-> <<Cat(<<W(SL), W(SL), Rep(NotCh({SL, NL}), 1)>>), W("."), S0, Eol>>,
      tpl |-> <<Grp(1)>>],
     [re |-> <<Cat(<<W(SL), W(SL), S0, Rep(NotCh({NL}), 0)>>), Ch(Emoji), S0,
               Rep(Ch(Emoji), 1)>>,
      tpl |-> <<Grp(1), Grp(2)>>] >>

SUSPICIOUS_PATTERNS ==
  << <<W("todo"), W(":"), S0, Ch({"implement", "add", "fix"}), S1, W("this")>>,
     <<W("fixme"), W(":"), S0, Ch({"implement", "add", "fix"}), S1, W("this")>>,
     <<W(SL), W(SL), S0, W("."), W("."), W(".")>>,
     <<W("placeholder")>> >>

(***************************************************************************)
(* The stages of CodeSanitizer.                                            *)
(***************************************************************************)
\* content.split('\n'): the lines of s, from position k on, cur being the
\* part of the current line read so far.
RECURSIVE SplitFromPos(_, _, _)
SplitFromPos(s, k, cur) ==
  IF k > Len(s) THEN <<cur>>
  ELSE IF s[k] = NL THEN <<cur>> \o SplitFromPos(s, k + 1, <<>>)
  ELSE SplitFromPos(s, k + 1, Append(cur, s[k]))

SplitLines(s) == Val({SplitFromPos(v, 1, <<>>) : v \in {s}})

\* ''.join(lines): the lines run together.
RECURSIVE JoinLines_nosep(_)
JoinLines_nosep(lines) ==
  IF lines = <<>> THEN <<>> ELSE lines[1] \o JoinLines_nosep(Tail(lines))

\* '\n'.join(lines)
RECURSIVE JoinLines(_)
JoinLines(lines) ==
  IF lines = <<>> THEN <<>>
  ELSE IF Len(lines) = 1 THEN lines[1]
  ELSE lines[1] \o <<NL>> \o JoinLines(Tail(lines))

\* The inner loop of remove_ai_lines: should_remove for one line (the break
\* leaves the loop at the first pattern found, so it is set iff one is).
PatternLoop(line) ==
  \E l \in {LowerText(line)} :
    \E k \in 1..Len(AI_LINE_PATTERNS) : Search(AI_LINE_PATTERNS[k], l, FALSE)

\* Blank lines are dropped as well.
LineLoop_nonblank(lines) ==
  Val({[cleaned |-> kept, removed |-> Len(lines) - Len(kept)] :
         kept \in {SelectSeq(lines,
                             LAMBDA line : line # <<>> /\ ~PatternLoop(line))}})

\* removed is incremented for every line looked at.
LineLoop_counted_each(lines) ==
  [cleaned |-> SelectSeq(lines, LAMBDA line : ~PatternLoop(line)),
   removed |-> Len(lines)]

\* The outer loop of remove_ai_lines: cleaned_lines holds the lines for which
\* should_remove stayed False, in order, and removed was incremented once
\* (line 152, then the break) for each line for which it was set.
LineLoop(lines) ==
  [cleaned |-> SelectSeq(lines, LAMBDA line : ~PatternLoop(line)),
   removed |-> Cardinality({k \in 1..Len(lines) : PatternLoop(lines[k])})]

\* remove_ai_lines: the text returned and the amount added to lines_removed.
remove_ai_lines(content) ==
  Val({[text |-> JoinLines(r.cleaned), removed |-> r.removed] :
         r \in {Val({LineLoop(lines) : lines \in {SplitLines(content)}})}})

\* Every rule is applied to the text the stage was given, and the text
\* returned is that of the last rule that replaced something.
RECURSIVE ReplaceLoop_unchained(_, _)
ReplaceLoop_unchained(content, k) ==
  IF k > Len(AI_REPLACE_PATTERNS) THEN [text |-> content, replaced |-> 0]
  ELSE Val({Val({[text |-> IF r.replaced > 0 THEN r.text ELSE one.text,
                  replaced |-> one.n + r.replaced] :
                   r \in {ReplaceLoop_unchained(content, k + 1)}}) :
              one \in {Subn(AI_REPLACE_PATTERNS[k].re,
                            AI_REPLACE_PATTERNS[k].tpl, content, TRUE)}})

\* The loop of apply_replacements over the rules from k on.
RECURSIVE ReplaceLoop(_, _)
ReplaceLoop(content, k) ==
  IF k > Len(AI_REPLACE_PATTERNS) THEN [text |-> content, replaced |-> 0]
  ELSE Val({Val({[text |-> r.text, replaced |-> one.n + r.replaced] :
                   r \in {ReplaceLoop(IF one.n > 0 THEN one.text ELSE content,
                                      k + 1)}}) :
              one \in {Subn(AI_REPLACE_PATTERNS[k].re,
                            AI_REPLACE_PATTERNS[k].tpl, content, TRUE)}})

\* apply_replacements: the text returned and the amount added to
\* patterns_replaced.
apply_replacements(content) == ReplaceLoop(content, 1)

EmptyBlockComment == <<W(SL), Rep(W("*"), 1), S0, Rep(W("*"), 1), W(SL)>>
EmptyLineComments == <<Rep(Cat(<<W(NL), S0, W(SL), W(SL), S0>>), 3)>>
BlankLines == <<Rep(W(NL), 4)>>

clean_empty_comment_blocks(content) ==
  LET c1 == Subn(EmptyBlockComment, <<>>, content, FALSE).text
      c2 == Subn(EmptyLineComments, <<Lit(NL)>>, c1, FALSE).text
  IN  Subn(BlankLines, <<Lit(NL), Lit(NL), Lit(NL)>>, c2, FALSE).text

SlashNoSpace == <<W(SL), W(SL), NotCh(WS \cup {SL})>>
JSDocOpen == <<W(SL), W("*"), W("*"), S1, W("*"), S0, W("@")>>
HashSpace == <<W("#"), W(SP), NotCh(WS \cup {"#", "!"})>>

normalize_comment_style(content, file_ext) ==
  IF file_ext \in {".js", ".jsx", ".ts", ".tsx"}
    THEN LET c1 == Subn(SlashNoSpace, <<Lit(SL), Lit(SL), Lit(SP), Grp(3)>>,
                        content, FALSE).text
         IN  Subn(JSDocOpen, <<Lit(SL), Lit("*"), Lit("*"), Lit(SP), Lit("@")>>,
                  c1, FALSE).text
  ELSE IF file_ext = ".py"
    THEN Subn(HashSpace, <<Lit("#"), Lit(SP), Grp(3)>>, content, FALSE).text
  ELSE content

\* One loop of check_suspicious: a finding for each pattern of pats that
\* matches somewhere, in the order of pats.
FindingsLoop(pats, kind, content, file_path) ==
  SelectSeq([k \in 1..Len(pats) |->
               [file |-> file_path, pattern |-> <<kind, k>>,
                count |-> FindCount(pats[k], content)]],
            LAMBDA finding : finding.count > 0)

\* check_suspicious: the entries it appends to stats['suspicious_found'].
check_suspicious(content, file_path) ==
  Val({FindingsLoop(SUSPICIOUS_PATTERNS, "suspicious", c, file_path)
       \o FindingsLoop(AI_TELLTALE_PATTERNS, "AI-telltale", c, file_path) :
         c \in {LowerText(content)}})

(***************************************************************************)
(* File discovery (lines 15-25, 125-138).                                  *)
(***************************************************************************)
CODE_EXTENSIONS ==
  {".js", ".jsx", ".ts", ".tsx", ".py", ".css", ".scss", ".html", ".md",
   ".yaml", ".yml", ".sh"}

SKIP_DIRS ==
  {"node_modules", ".git", "dist", "build", ".next", "__pycache__", ".venv",
   "venv", "coverage", ".nyc_output"}

\* pathlib's Path(name).suffix for the file names of the model.
Suffix(name) ==
  CASE name = "a.js" -> ".js"
    [] name = "B.JS" -> ".JS"
    [] name = "c.py" -> ".py"
    [] name = "d.md" -> ".md"
    [] name = "e.json" -> ".json"
    [] name = "f.txt" -> ".txt"
    [] name = "G.TXT" -> ".TXT"
    [] OTHER -> ""

\* The extension is not looked at.
should_process_file_anyext(parts) ==
  ~(\E k \in 1..Len(parts) : parts[k] \in SKIP_DIRS)

should_process_file(parts) ==
  IF Lower(Suffix(parts[Len(parts)])) \notin CODE_EXTENSIONS THEN FALSE
  ELSE IF \E k \in 1..Len(parts) : parts[k] \in SKIP_DIRS THEN FALSE
  ELSE TRUE

(***************************************************************************)
(* The file tree a run walks: the root holds file 1 and directory 1,       *)
(* directory 1 holds directory 2, directory 2 holds file 2.                *)
(***************************************************************************)
Dirs == {1, 2}
Files == {1, 2}
ParentOf(d) == d - 1
DirOf(f) == IF f = 1 THEN 0 ELSE 2

RootChoices == {<<"/", "repo">>, <<"/", "build", "repo">>}
DirNames == {"src", "node_modules"}
FileNames == {"a.js", "B.JS", "e.json", "f.txt"}
FileTexts ==
  { <<"x">>,
    <<"/", "/", " ", "AI", " ", "generated", "\n", "x">>,
    <<"/", "/", "x", ".">>,
    <<"/", "/", "TODO", ":", "fix", " ", "this">> }

\* File 1 is drawn from fewer names and texts than file 2.
NamesOf(f) == IF f = 1 THEN {"a.js", "f.txt"} ELSE FileNames
TextsOf(f) ==
  IF f = 1
    THEN {<<"x">>, <<"/", "/", " ", "AI", " ", "generated", "\n", "x">>}
    ELSE FileTexts

\* The number of invocations (main, or a direct call of process_file) of a
\* behaviour that compares invocations.
MaxRuns == 2

VARIABLES
  root_dir,    \* the parts of the root path
  dirname,     \* the name of each directory
  filename,    \* the name of each file
  disk,        \* the text of each file on disk
  io,          \* how the file system answers open() for each file, once known
  pc,          \* the statement the program is at
  dry_run,     \* self.dry_run
  stats,       \* self.stats
  stack,       \* os.walk: the directories still to list
  subdirs,     \* os.walk: dirs of the directory being listed, after pruning
  todo,        \* os.walk: files of the directory being listed, still to visit
  caller,      \* "run" or "direct": who called process_file
  cur,         \* process_file: file_path
  original_content,
  content,
  ran,         \* the stages process_file has run on cur, with input and output
  rd,          \* process_file: "no", or how the open() for reading ended
  wr,          \* process_file: "no", or how the open() for writing ended
  modified,    \* the value process_file returns
  log,         \* what has happened to each file, and which directories were listed
  left,        \* invocations still to come
  start,       \* the disk when the current invocation began
  wfailed,     \* writes that failed in the current invocation
  reports      \* the final reports printed so far

vars ==
  <<root_dir, dirname, filename, disk, io, pc, dry_run, stats, stack, subdirs,
    todo, caller, cur, original_content, content, ran, rd, wr, modified, log,
    left, start, wfailed, reports>>

tree == <<root_dir, dirname, filename>>
walk == <<stack, subdirs, todo>>
file == <<cur, original_content, content, ran, rd, wr, modified>>

\* The parts of the path of directory d (0: the root) and of file f.
RECURSIVE DirParts(_, _, _)
DirParts(root, names, d) ==
  IF d = 0 THEN root ELSE Append(DirParts(root, names, ParentOf(d)), names[d])

FileParts(f) == Append(DirParts(root_dir, dirname, DirOf(f)), filename[f])

\* The entries of a set of numbers, in increasing order (a listing order).
RECURSIVE Listing(_)
Listing(S) ==
  IF S = {} THEN <<>>
  ELSE LET m == CHOOSE x \in S : \A y \in S : x <= y
       IN  <<m>> \o Listing(S \ {m})

\* __init__ (lines 117-123).
NewStats ==
  [files_processed |-> 0, files_modified |-> 0, lines_removed |-> 0,
   patterns_replaced |-> 0, suspicious_found |-> <<>>]

NoLog ==
  [counted |-> {}, read |-> {}, written |-> {}, listed |-> {}, failed |-> {}]

\* No invocation has begun, n are to come: all but the tree, the statement
\* and the text in hand.
Fresh(n) ==
  /\ io = [f \in Files |-> [r |-> "?", w |-> "?"]]
  /\ dry_run = FALSE
  /\ stats = NewStats
  /\ stack = <<>>
  /\ subdirs = <<>>
  /\ todo = <<>>
  /\ caller = "none"
  /\ cur = 0
  /\ ran = <<>>
  /\ rd = "no"
  /\ wr = "no"
  /\ modified = FALSE
  /\ log = NoLog
  /\ left = n
  /\ start = disk
  /\ wfailed = 0
  /\ reports = <<>>

\* The state before the first of n invocations, but for the tree.
Idle(n) ==
  /\ Fresh(n)
  /\ pc = "idle"
  /\ original_content = <<>>
  /\ content = <<>>

\* One invocation on a tree.
Init ==
  /\ root_dir \in RootChoices
  /\ dirname \in [Dirs -> DirNames]
  /\ filename \in {fn \in [Files -> FileNames] : \A f \in Files : fn[f] \in NamesOf(f)}
  /\ disk \in {d \in [Files -> FileTexts] : \A f \in Files : d[f] \in TextsOf(f)}
  /\ Idle(1)

\* Entering process_file(f) (line 225).
Enter(f) ==
  /\ cur' = f
  /\ original_content' = <<>>
  /\ content' = <<>>
  /\ ran' = <<>>
  /\ rd' = "no"
  /\ wr' = "no"
  /\ modified' = FALSE
  /\ pc' = "read"

\* main (lines 328-333): a new CodeSanitizer, then run() up to its loop.
Main(dry) ==
  /\ pc = "idle"
  /\ left > 0
  /\ left' = left - 1
  /\ dry_run' = dry
  /\ stats' = NewStats
  /\ caller' = "run"
  /\ stack' = <<0>>
  /\ pc' = "walk"
  /\ UNCHANGED <<tree, disk, io, subdirs, todo, file, log, start, wfailed,
                 reports>>

\* A new CodeSanitizer whose process_file is called on one file directly.
CallProcessFile(dry, f) ==
  /\ pc = "idle"
  /\ left > 0
  /\ left' = left - 1
  /\ dry_run' = dry
  /\ stats' = NewStats
  /\ caller' = "direct"
  /\ Enter(f)
  /\ UNCHANGED <<tree, disk, io, walk, log, start, wfailed, reports>>

\* Line 269 left out: every directory stays.
KeptDirs_all(dirs, names) == dirs

\* Line 269: the entries of dirs that stay, names being their names.
KeptDirs(dirs, names) == {c \in dirs : names[c] \notin SKIP_DIRS}

\* os.walk yields the next directory; line 269 prunes its dirs.
WalkDir ==
  /\ pc = "walk"
  /\ stack # <<>>
  /\ LET d == Head(stack)
     IN  /\ subdirs' = Listing(KeptDirs({c \in Dirs : ParentOf(c) = d}, dirname))
         /\ todo' = Listing({f \in Files : DirOf(f) = d})
         /\ stack' = Tail(stack)
         /\ log' = [log EXCEPT !.listed = @ \cup {d}]
  /\ pc' = "files"
  /\ UNCHANGED <<tree, disk, io, dry_run, stats, caller, file, left, start,
                 wfailed, reports>>

\* One round of the loop over files (lines 271-276).
NextFile ==
  /\ pc = "files"
  /\ todo # <<>>
  /\ todo' = Tail(todo)
  /\ IF should_process_file(FileParts(Head(todo)))
       THEN /\ stats' = [stats EXCEPT !.files_processed = @ + 1]
            /\ log' = [log EXCEPT !.counted = @ \cup {Head(todo)}]
            /\ Enter(Head(todo))
       ELSE UNCHANGED <<stats, log, file, pc>>
  /\ UNCHANGED <<tree, disk, io, dry_run, stack, subdirs, caller, left, start,
                 wfailed, reports>>

\* The files of a directory are done: os.walk goes on into the kept dirs.
Descend ==
  /\ pc = "files"
  /\ todo = <<>>
  /\ stack' = subdirs \o stack
  /\ subdirs' = <<>>
  /\ pc' = "walk"
  /\ UNCHANGED <<tree, disk, io, dry_run, stats, todo, caller, file, log, left,
                 start, wfailed, reports>>

\* The scan before the normalization.
Following_swapped(stage) ==
  CASE stage = "remove" -> "replace"
    [] stage = "replace" -> "clean"
    [] stage = "clean" -> "scan"
    [] stage = "scan" -> "normalize"
    [] stage = "normalize" -> "write"

\* The statement after the read (line 238) and after each stage.
AfterRead(file_ext) == IF file_ext # ".json" THEN "remove" ELSE "scan"

Following(stage) ==
  CASE stage = "remove" -> "replace"
    [] stage = "replace" -> "clean"
    [] stage = "clean" -> "normalize"
    [] stage = "normalize" -> "scan"
    [] stage = "scan" -> "write"

FileExt(f) == Lower(Suffix(filename[f]))

\* The exception is not caught: the program ends with a traceback.
AfterError_raised(at) == "traceback"

\* Where an exception of open(), read() or write() leaves process_file
\* (lines 230-232, 253-255): it is caught and the call returns False.
AfterError(at) == "return"

\* Lines 227-235: the read; an error returns False.
Read ==
  /\ pc = "read"
  /\ \E r \in {"ok", "err"} :
       /\ io[cur].r \in {"?", r}
       /\ io' = [io EXCEPT ![cur].r = r]
       /\ rd' = r
       /\ IF r = "ok"
            THEN /\ original_content' = disk[cur]
                 /\ content' = disk[cur]
                 /\ pc' = AfterRead(FileExt(cur))
                 /\ log' = [log EXCEPT !.read = @ \cup {<<cur, caller>>}]
            ELSE /\ pc' = AfterError("read")
                 /\ log' = [log EXCEPT !.read = @ \cup {<<cur, caller>>},
                                       !.failed = @ \cup {cur}]
                 /\ UNCHANGED <<original_content, content>>
  /\ UNCHANGED <<tree, disk, dry_run, stats, walk, caller, cur, ran, wr,
                 modified, left, start, wfailed, reports>>

\* A stage that maps the text: its name, its result, and the new stats.
Stage(name, out, newstats) ==
  /\ pc = name
  /\ content' = out
  /\ stats' = newstats
  /\ ran' = Append(ran, [stage |-> name, in |-> content, out |-> out,
                         stats |-> newstats])
  /\ pc' = Following(name)
  /\ UNCHANGED <<tree, disk, io, dry_run, walk, caller, cur, original_content,
                 rd, wr, modified, log, left, start, wfailed, reports>>

\* Line 239.
RemoveAiLines ==
  /\ pc = "remove"
  /\ \E r \in {remove_ai_lines(content)} :
       Stage("remove", r.text, [stats EXCEPT !.lines_removed = @ + r.removed])

\* Line 240.
ApplyReplacements ==
  /\ pc = "replace"
  /\ \E r \in {apply_replacements(content)} :
       Stage("replace", r.text,
             [stats EXCEPT !.patterns_replaced = @ + r.replaced])

\* Line 241.
CleanEmptyCommentBlocks ==
  /\ pc = "clean"
  /\ \E c \in {clean_empty_comment_blocks(content)} : Stage("clean", c, stats)

\* Line 242.
NormalizeCommentStyle ==
  /\ pc = "normalize"
  /\ \E c \in {normalize_comment_style(content, FileExt(cur))} :
       Stage("normalize", c, stats)

\* The findings are also counted as replacements.
ScanStats_counted(st, found) ==
  [st EXCEPT !.suspicious_found = @ \o found,
             !.patterns_replaced = @ + Len(found)]

\* What check_suspicious leaves in self.stats.
ScanStats(st, found) == [st EXCEPT !.suspicious_found = @ \o found]

\* Line 245.
CheckSuspicious ==
  /\ pc = "scan"
  /\ \E found \in {check_suspicious(content, cur)} :
       Stage("scan", content, ScanStats(stats, found))

\* Every file that was read counts as changed.
Changed_always(new, old) == TRUE

\* Line 248: the text differs from what was read.
Changed(new, old) == new # old

\* The dry-run flag is not looked at.
Persist_always(dry) == TRUE

\* Line 249: the file is written unless the run is a dry run.
Persist(dry) == ~dry

\* Line 257.
CountModified(st) == [st EXCEPT !.files_modified = @ + 1]

\* Line 257 moved before the write: a failed write is counted too.
AfterWrite_counted(w, st) == [st EXCEPT !.files_modified = @ + 1]

\* self.stats after the write ended as w: an exception returns at line 255,
\* before line 257.
AfterWrite(w, st) == IF w = "ok" THEN CountModified(st) ELSE st

\* Lines 248-260: the write, when the text changed and the run is not dry.
\* A write that fails leaves the file as it was (open() failed) or empty
\* (open() truncated it and write() failed).
WriteBack ==
  /\ pc = "write"
  /\ IF ~Changed(content, original_content)
       THEN /\ pc' = "return"
            /\ UNCHANGED <<disk, io, stats, wr, modified, log, wfailed>>
     ELSE IF ~Persist(dry_run)
       THEN /\ stats' = CountModified(stats)
            /\ modified' = TRUE
            /\ pc' = "return"
            /\ UNCHANGED <<disk, io, wr, log, wfailed>>
     ELSE \E w \in {"ok", "deny", "trunc"} :
            /\ io[cur].w \in {"?", w}
            /\ io' = [io EXCEPT ![cur].w = w]
            /\ wr' = w
            /\ disk' = [disk EXCEPT
                          ![cur] = CASE w = "ok" -> content
                                     [] w = "deny" -> @
                                     [] w = "trunc" -> <<>>]
            /\ stats' = AfterWrite(w, stats)
            /\ modified' = (w = "ok")
            /\ IF w = "ok"
                 THEN /\ pc' = "return"
                      /\ log' = [log EXCEPT !.written = @ \cup {<<cur, caller>>}]
                      /\ UNCHANGED wfailed
                 ELSE /\ pc' = AfterError("write")
                      /\ log' = [log EXCEPT !.written = @ \cup {<<cur, caller>>},
                                            !.failed = @ \cup {cur}]
                      /\ wfailed' = wfailed + 1
  /\ UNCHANGED <<tree, dry_run, walk, caller, cur, original_content, content,
                 ran, rd, left, start, reports>>

\* The invocation is over and its CodeSanitizer is gone.
Exit ==
  /\ pc' = "idle"
  /\ dry_run' = FALSE
  /\ stats' = NewStats
  /\ caller' = "none"
  /\ cur' = 0
  /\ original_content' = <<>>
  /\ content' = <<>>
  /\ ran' = <<>>
  /\ rd' = "no"
  /\ wr' = "no"
  /\ modified' = FALSE
  /\ log' = NoLog
  /\ wfailed' = 0
  /\ start' = disk

\* process_file returns to the loop of run (lines 276-280).
Return ==
  /\ pc = "return"
  /\ caller = "run"
  /\ pc' = "files"
  /\ UNCHANGED <<tree, disk, io, dry_run, stats, walk, caller, file, log, left,
                 start, wfailed, reports>>

\* process_file returns to a direct caller.
ReturnToCaller ==
  /\ pc = "return"
  /\ caller = "direct"
  /\ Exit
  /\ UNCHANGED <<tree, disk, io, walk, left, reports>>

\* Line 282: the walk is over, print_report.
PrintReport ==
  /\ pc = "walk"
  /\ stack = <<>>
  /\ reports' = Append(reports, [dry_run |-> dry_run, start |-> start,
                                 files_processed |-> stats.files_processed,
                                 files_modified |-> stats.files_modified,
                                 wfailed |-> wfailed])
  /\ Exit
  /\ UNCHANGED <<tree, disk, io, walk, left>>

Next ==
  \/ \E dry \in BOOLEAN : Main(dry)
  \/ \E dry \in BOOLEAN, f \in Files : CallProcessFile(dry, f)
  \/ WalkDir
  \/ NextFile
  \/ Descend
  \/ Read
  \/ RemoveAiLines
  \/ ApplyReplacements
  \/ CleanEmptyCommentBlocks
  \/ NormalizeCommentStyle
  \/ CheckSuspicious
  \/ WriteBack
  \/ Return
  \/ ReturnToCaller
  \/ PrintReport

Spec == Init /\ [][Next]_vars

\* The steps of the program itself: once invoked it keeps running.
Step ==
  \/ WalkDir
  \/ NextFile
  \/ Descend
  \/ Read
  \/ RemoveAiLines
  \/ ApplyReplacements
  \/ CleanEmptyCommentBlocks
  \/ NormalizeCommentStyle
  \/ CheckSuspicious
  \/ WriteBack
  \/ Return
  \/ ReturnToCaller
  \/ PrintReport

FairSpec == Spec /\ WF_vars(Step)

\* Several invocations, one after the other, on a tree.
InitPair ==
  /\ root_dir = <<"/", "repo">>
  /\ dirname \in [Dirs -> DirNames]
  /\ filename \in [Files -> {"a.js", "f.txt"}]
  /\ disk \in [Files -> TextsOf(1)]
  /\ Idle(MaxRuns)

SpecPair == InitPair /\ [][Next]_vars

(***************************************************************************)
(* Applying remove_ai_lines again to its own output.                       *)
(***************************************************************************)
\* The longest text the line-removal stage is tried on.
MaxLen == 4

LineAlphabet == {"/", " ", "\n", "AI", "generated"}

RECURSIVE TextsUpTo(_)
TextsUpTo(n) ==
  IF n = 0 THEN {<<>>}
  ELSE LET shorter == TextsUpTo(n - 1)
       IN  shorter \cup {Append(s, c) : s \in {x \in shorter : Len(x) = n - 1},
                                        c \in LineAlphabet}

InitRemove ==
  /\ root_dir = <<"/", "repo">>
  /\ dirname = [d \in Dirs |-> "src"]
  /\ filename = [f \in Files |-> "a.js"]
  /\ disk = [f \in Files |-> <<>>]
  /\ Fresh(0)
  /\ pc = "remove"
  /\ content \in TextsUpTo(MaxLen)
  /\ original_content = content

\* The caller hands the text it got back to remove_ai_lines once more.
Again ==
  /\ pc = "replace"
  /\ Len(ran) < 2
  /\ pc' = "remove"
  /\ UNCHANGED <<tree, disk, io, dry_run, stats, walk, caller, cur,
                 original_content, content, ran, rd, wr, modified, log, left,
                 start, wfailed, reports>>

NextRemove == RemoveAiLines \/ Again

SpecRemove == InitRemove /\ [][NextRemove]_vars

(***************************************************************************)
(* apply_replacements on a text of its own.                                *)
(***************************************************************************)
\* The most pieces a text handed to a single stage is put together from.
MaxChunks == 4

\* The texts put together from at most n pieces of C.
RECURSIVE ChunkTexts(_, _)
ChunkTexts(C, n) ==
  IF n = 0 THEN {<<>>}
  ELSE LET shorter == ChunkTexts(C, n - 1)
       IN  shorter \cup {s \o c : s \in shorter, c \in C}

ReplaceChunks ==
  { <<"/", "/">>, <<" ">>, <<"This", " ", "function", " ">>, <<"x">>, <<".">>,
    <<"\n">>, <<"<e1>">> }

\* The state in which a stage is about to run on the text of a file of the
\* given name, nothing else having happened.
BeforeStage(stage, name) ==
  /\ root_dir = <<"/", "repo">>
  /\ dirname = [d \in Dirs |-> "src"]
  /\ filename = [f \in Files |-> name]
  /\ disk = [f \in Files |-> <<>>]
  /\ Fresh(0)
  /\ pc = stage
  /\ original_content = content

InitReplace ==
  /\ content \in ChunkTexts(ReplaceChunks, MaxChunks)
  /\ BeforeStage("replace", "a.js")

SpecReplace == InitReplace /\ [][ApplyReplacements]_vars

(***************************************************************************)
(* clean_empty_comment_blocks on a text of its own.                        *)
(***************************************************************************)
\* The most lines a text handed to the structural cleanup is made of.
MaxLines == 5

\* The lines such a text is made of: a bare comment, code, an empty line and
\* an empty block comment.
CleanLines == { <<"/", "/">>, <<"x">>, <<>>, <<"/", "*", "*", "/">> }

\* The lists of 1..n lines of L.
LineLists(L, n) == UNION {[1..m -> L] : m \in 1..n}

InitClean ==
  /\ content \in {JoinLines(ls) : ls \in LineLists(CleanLines, MaxLines)}
  /\ BeforeStage("clean", "a.js")

SpecClean == InitClean /\ [][CleanEmptyCommentBlocks]_vars

(***************************************************************************)
(* normalize_comment_style on a text of its own, for a file of each kind.  *)
(***************************************************************************)
NormalizeNames == {"a.js", "c.py", "d.md"}

NormalizeChunks ==
  { <<"/", "/">>, <<"#">>, <<" ">>, <<"x">>, <<"\n">>,
    <<"/", "*", "*", "\n", " ", "*", " ", "@">> }

\* process_file has come to line 242 with some text of file 1 in hand.
InitNormalize ==
  /\ content \in ChunkTexts(NormalizeChunks, MaxChunks)
  /\ original_content = content
  /\ root_dir = <<"/", "repo">>
  /\ dirname = [d \in Dirs |-> "src"]
  /\ \E name \in NormalizeNames : filename = [f \in Files |-> name]
  /\ disk = [f \in Files |-> <<>>]
  /\ io = [f \in Files |-> [r |-> "?", w |-> "?"]]
  /\ pc = "normalize"
  /\ dry_run = FALSE
  /\ stats = NewStats
  /\ stack = <<>>
  /\ subdirs = <<>>
  /\ todo = <<>>
  /\ caller = "direct"
  /\ cur = 1
  /\ ran = <<>>
  /\ rd = "no"
  /\ wr = "no"
  /\ modified = FALSE
  /\ log = NoLog
  /\ left = 0
  /\ start = disk
  /\ wfailed = 0
  /\ reports = <<>>

SpecNormalize == InitNormalize /\ [][NormalizeCommentStyle]_vars

(***************************************************************************)
(* The claims.                                                             *)
(***************************************************************************)
AiLine == <<"/", "/", " ", "AI", " ", "generated", "\n", "x">>

\* The walk of run() is over: the report is the next statement.
WalkDone == caller = "run" /\ pc = "walk" /\ stack = <<>>

\* Directory d is a or lies below a.
RECURSIVE Below(_, _)
Below(d, a) == d # 0 /\ (d = a \/ Below(ParentOf(d), a))

\* C1: while a dry run of run() is under way, the text of every file on disk
\* is the text it had when the run began, and no file has been opened for
\* writing.
C1_DryRunKeepsDisk ==
  (caller = "run" /\ dry_run) => (disk = start /\ log.written = {})

\* A dry run has met a file whose text the stages change, and counted it.
C1_Witness ==
  /\ caller = "run"
  /\ dry_run
  /\ pc = "return"
  /\ modified
  /\ content # original_content

\* C2 as stated: a dry run and a run that writes, begun on the same tree
\* with the same texts, report the same files_modified.
C2_SameModifiedCount ==
  \A i, j \in 1..Len(reports) :
    (reports[i].dry_run /\ ~reports[j].dry_run
       /\ reports[i].start = reports[j].start)
    => reports[i].files_modified = reports[j].files_modified

\* C2 amended: the run that writes reports the count of the dry run less the
\* number of its writes that failed.
C2_ModifiedCountLessFailedWrites ==
  \A i, j \in 1..Len(reports) :
    (reports[i].dry_run /\ ~reports[j].dry_run
       /\ reports[i].start = reports[j].start)
    => reports[i].files_modified
         = reports[j].files_modified + reports[j].wfailed

\* A dry run and a run that writes have reported on the same input, both
\* counting a modified file, and a write of the second failed.
C2_Witness ==
  /\ Len(reports) = 2
  /\ reports[1].dry_run
  /\ ~reports[2].dry_run
  /\ reports[1].start = reports[2].start
  /\ reports[2].files_modified > 0
  /\ reports[2].wfailed > 0

\* C3: run() never opens for writing a file whose extension, lower-cased,
\* is not in CODE_EXTENSIONS.
C3_OtherExtensionsNeverWritten ==
  \A f \in Files :
    Lower(Suffix(filename[f])) \notin CODE_EXTENSIONS
    => <<f, "run">> \notin log.written

\* A run that writes has gone past f.txt in the root, whose text the stages
\* would change.
C3_Witness ==
  /\ caller = "run"
  /\ ~dry_run
  /\ filename[1] = "f.txt"
  /\ disk[1] = AiLine
  /\ 0 \in log.listed
  /\ pc = "files"
  /\ todo = <<>>

\* C4: a directory named in SKIP_DIRS below the root is never listed by the
\* walk, nor is any directory below it, and a file below it is never counted
\* in files_processed, read or written by run().
C4_SkippedDirsNeverEntered ==
  \A a \in Dirs :
    dirname[a] \in SKIP_DIRS
    => /\ \A d \in Dirs : Below(d, a) => d \notin log.listed
       /\ \A f \in Files :
            Below(DirOf(f), a)
            => /\ f \notin log.counted
               /\ <<f, "run">> \notin log.read
               /\ <<f, "run">> \notin log.written

\* The walk is over on a tree whose a.js lies two levels deep, below
\* node_modules/src.
C4_Witness ==
  /\ WalkDone
  /\ root_dir = <<"/", "repo">>
  /\ dirname[1] = "node_modules"
  /\ dirname[2] = "src"
  /\ filename[2] = "a.js"
  /\ disk[2] = AiLine
  /\ stats.files_processed = 1

\* The files run() takes as candidates.
Candidates == {f \in Files : should_process_file(FileParts(f))}

\* C5: a run that has begun always ends with one report, whatever reads and
\* writes fail; it never reports twice, and by the time the walk is over it
\* has tried to read every candidate file.
C5_RunAlwaysReportsOnce ==
  /\ [](caller = "run" => <>(pc = "idle" /\ Len(reports) = 1))
  /\ [](Len(reports) <= 1)
  /\ [](WalkDone => \A f \in Candidates : <<f, "run">> \in log.read)

\* The report is out after a run in which the read of file 1 and the write of
\* file 2 failed.
C5_Witness ==
  /\ Len(reports) = 1
  /\ pc = "idle"
  /\ io[1].r = "err"
  /\ io[2].w \in {"deny", "trunc"}
  /\ reports[1].files_processed = 2
  /\ reports[1].wfailed = 1

\* The files run() tried to read and whose read and write did not fail.
Unfailed == {f \in Files : <<f, "run">> \in log.read /\ f \notin log.failed}

\* C6 as stated: when the walk is over neither counter counts a file whose
\* read or write failed.
C6_FailedFilesNotCounted ==
  WalkDone => /\ stats.files_processed <= Cardinality(Unfailed)
              /\ stats.files_modified <= Cardinality(Unfailed)

\* C7 as stated: when process_file returns after a successful read, the file
\* has been overwritten with the text after the stages exactly if that text
\* differs from the text read and the run is not a dry run.
C7_OverwrittenIffChangedAndNotDry ==
  (pc = "return" /\ rd = "ok")
  => ((wr = "ok" /\ disk[cur] = content)
        <=> (content # original_content /\ ~dry_run))

\* C7 amended: when process_file returns after a successful read, it has
\* opened the file for writing exactly if the text after the stages differs
\* from the text read and the run is not a dry run; a write that succeeded
\* left the text after the last stage on disk, and without a write the file
\* is as read.
C7_WrittenIffChangedAndNotDry ==
  (pc = "return" /\ rd = "ok")
  => /\ (wr # "no") <=> (content # original_content /\ ~dry_run)
     /\ wr = "ok" => (disk[cur] = content /\ content = ran[Len(ran)].out)
     /\ wr = "no" => disk[cur] = original_content

\* process_file returns from a write that succeeded.
C7_Witness ==
  /\ pc = "return"
  /\ rd = "ok"
  /\ wr = "ok"
  /\ disk[cur] # original_content

\* s is the beginning of q.
IsPrefix(s, q) == Len(s) <= Len(q) /\ SubSeq(q, 1, Len(s)) = s

\* C8: the step of check_suspicious leaves the text, the disk and the four
\* counters as they are and only appends to suspicious_found; and at the
\* write the file is opened and counted by the texts and the dry-run flag
\* alone, whatever was found.
C8_ScanOnlyAppendsFindings ==
  [][/\ pc = "scan"
        => /\ content' = content
           /\ disk' = disk
           /\ stats' = [stats EXCEPT
                          !.suspicious_found = stats'.suspicious_found]
           /\ IsPrefix(stats.suspicious_found, stats'.suspicious_found)
     /\ pc = "write"
        => /\ (wr' # "no") <=> (content # original_content /\ ~dry_run)
           /\ modified' <=> (content # original_content
                               /\ (dry_run \/ wr' = "ok"))
           /\ stats'.suspicious_found = stats.suspicious_found]_vars

\* A file with a finding has been written.
C8_Witness ==
  /\ pc = "return"
  /\ stats.suspicious_found # <<>>
  /\ wr = "ok"

StagesOf(file_ext) ==
  IF file_ext = ".json" THEN <<"scan">>
  ELSE <<"remove", "replace", "clean", "normalize", "scan">>

\* C9: once process_file has read the file and come to the write, it has
\* run line removal, replacement, cleanup, normalization and the scan, in
\* this order and once each (the scan alone for .json), the first on the text
\* read, each other on the output of the one before, the scan on the final
\* text; so in a dry run and for an unchanged text too.
C9_StagesInOrder ==
  (pc \in {"write", "return"} /\ rd = "ok")
  => /\ [k \in 1..Len(ran) |-> ran[k].stage] = StagesOf(FileExt(cur))
     /\ ran[1].in = original_content
     /\ \A k \in 2..Len(ran) : ran[k].in = ran[k - 1].out
     /\ ran[Len(ran)].in = content
     /\ ran[Len(ran)].out = content

\* A dry run is through the five stages of a file whose text they change.
C9_Witness ==
  /\ pc = "return"
  /\ rd = "ok"
  /\ dry_run
  /\ Len(ran) = 5
  /\ ran[1].out # ran[1].in
  /\ content # original_content

\* C10: a second pass of remove_ai_lines over the output of the first
\* returns it unchanged and adds nothing to lines_removed.
C10_RemoveAiLinesIdempotent ==
  Len(ran) = 2
  => /\ ran[2].in = ran[1].out
     /\ ran[2].out = ran[1].out
     /\ ran[2].stats.lines_removed = ran[1].stats.lines_removed

\* The second pass is over a text from which the first removed a line and
\* kept another.
C10_Witness ==
  /\ Len(ran) = 2
  /\ ran[1].stats.lines_removed = 1
  /\ ran[1].out # <<>>
  /\ ran[1].out # ran[1].in

\* The lines of the text a call of remove_ai_lines got, and the places of
\* those that match no removal pattern.
LinesIn(call) == SplitLines(call.in)
KeptPlaces(call) ==
  {k \in 1..Len(LinesIn(call)) : ~PatternLoop(LinesIn(call)[k])}

\* The j-th place of a set of places, in increasing order.
Place(K, j) == CHOOSE k \in K : Cardinality({i \in K : i <= k}) = j

\* C11: the text remove_ai_lines returns is made of the lines of its input
\* that match no removal pattern, in their order and each as it was (the
\* empty text when there is none); when no line matches, it is the input.
C11_OutputIsTheUnmatchedLines ==
  Len(ran) >= 1
  => LET call == ran[1]
         K == KeptPlaces(call)
         O == SplitLines(call.out)
     IN  /\ IF K = {} THEN call.out = <<>>
              ELSE /\ Len(O) = Cardinality(K)
                   /\ \A j \in 1..Len(O) : O[j] = LinesIn(call)[Place(K, j)]
         /\ Cardinality(K) = Len(LinesIn(call)) => call.out = call.in

\* An empty comment was removed and the line of one blank after it was kept
\* as it was.
C11_Witness ==
  /\ Len(ran) >= 1
  /\ ran[1].in = <<"/", "/", "\n", " ">>
  /\ ran[1].out = <<" ">>

\* C12 as stated: the amount a call adds to lines_removed is the number of
\* lines of its input less the number of lines of its output.
C12_RemovedIsLineDifference ==
  Len(ran) >= 1
  => ran[1].stats.lines_removed
       = Len(SplitLines(ran[1].in)) - Len(SplitLines(ran[1].out))

\* C12 amended: the amount a call adds to lines_removed is the number of
\* lines of its input that match a pattern, each counted once; when a line
\* is kept this is the number of lines of the input less that of the output.
C12_RemovedIsMatchedLines ==
  Len(ran) >= 1
  => LET call == ran[1]
         K == KeptPlaces(call)
     IN  /\ call.stats.lines_removed = Len(LinesIn(call)) - Cardinality(K)
         /\ K # {} => call.stats.lines_removed
                        = Len(LinesIn(call)) - Len(SplitLines(call.out))

\* A text of one line, an empty comment, has been through the stage: the
\* line is counted and the text returned is empty.
C12_Witness ==
  /\ Len(ran) >= 1
  /\ ran[1].in = <<"/", "/">>
  /\ ran[1].out = <<>>
  /\ ran[1].stats.lines_removed = 1

\* What rule k of AI_REPLACE_PATTERNS makes of a text: re.subn's result.
RuleOn(k, text) ==
  Subn(AI_REPLACE_PATTERNS[k].re, AI_REPLACE_PATTERNS[k].tpl, text, TRUE)

\* The text after the rules 1..k, each applied to what the one before left.
RECURSIVE AfterRules(_, _)
AfterRules(k, text) ==
  IF k = 0 THEN text ELSE RuleOn(k, AfterRules(k - 1, text)).text

\* The replacements the rules 1..k made on the way.
RECURSIVE MadeByRules(_, _)
MadeByRules(k, text) ==
  IF k = 0 THEN 0
  ELSE MadeByRules(k - 1, text) + RuleOn(k, AfterRules(k - 1, text)).n

\* C13: apply_replacements returns what the rules leave when applied in the
\* listed order, each to the output of the one before, and adds to
\* patterns_replaced the replacements they made on the way; a rule that
\* replaced nothing left the text as it was.
C13_RulesInOrderAndCounted ==
  (Len(ran) >= 1 /\ ran[1].stage = "replace")
  => LET last == Len(AI_REPLACE_PATTERNS)
     IN  /\ ran[1].out = AfterRules(last, ran[1].in)
         /\ ran[1].stats.patterns_replaced = MadeByRules(last, ran[1].in)
         /\ \A k \in 1..last :
              RuleOn(k, AfterRules(k - 1, ran[1].in)).n = 0
              => AfterRules(k, ran[1].in) = AfterRules(k - 1, ran[1].in)

\* The first rule shortened "//This function x." and the third took the
\* full stop of what it left.
C13_Witness ==
  /\ Len(ran) >= 1
  /\ ran[1].stage = "replace"
  /\ ran[1].in = <<"/", "/", "This", " ", "function", " ", "x", ".">>
  /\ ran[1].out = <<"/", "/", " ", "x">>
  /\ ran[1].stats.patterns_replaced = 2

\* The text holds a single-line comment marker.
HasLineComment(text) ==
  \E i \in 1..(Len(text) - 1) : text[i] = SL /\ text[i + 1] = SL

\* The lines from place a to place b are bare empty comments.
BareRun(lines, a, b) == \A k \in a..b : lines[k] = <<SL, SL>>

\* C14 as stated: when the text handed to clean_empty_comment_blocks is made
\* of three or more lines that are each a bare `//`, as the five `//` lines
\* are, the text returned holds no `//` comment.
C14_BareCommentRunCollapses ==
  \A n \in 1..Len(ran) :
    (/\ ran[n].stage = "clean"
     /\ Len(SplitLines(ran[n].in)) >= 3
     /\ BareRun(SplitLines(ran[n].in), 1, Len(SplitLines(ran[n].in))))
    => ~HasLineComment(ran[n].out)

\* What the code does with five `//` lines: the match begins at the first
\* line break, takes three comments and the line break after them, and
\* leaves the first and the last comment.
C14_FiveBareComments ==
  \A n \in 1..Len(ran) :
    (ran[n].stage = "clean"
       /\ ran[n].in = JoinLines([k \in 1..5 |-> <<SL, SL>>]))
    => ran[n].out = <<SL, SL, NL, SL, SL>>

C14_Witness ==
  /\ Len(ran) = 1
  /\ ran[1].stage = "clean"
  /\ ran[1].in = JoinLines([k \in 1..5 |-> <<SL, SL>>])

SlashFamily == {".js", ".jsx", ".ts", ".tsx"}

\* A line-comment marker of the file type stands at place i of the text
\* with comment text right after it.
BareMarkerAt(text, ext, i) ==
  IF ext \in SlashFamily
    THEN /\ i + 2 <= Len(text)
         /\ text[i] = SL
         /\ text[i + 1] = SL
         /\ text[i + 2] \notin WS \cup {SL}
  ELSE /\ ext = ".py"
       /\ i + 1 <= Len(text)
       /\ text[i] = "#"
       /\ text[i + 1] \notin WS \cup {"#", "!"}

HasBareMarker(text, ext) == \E i \in 1..Len(text) : BareMarkerAt(text, ext, i)

\* The text without its spaces.
Unspaced(text) == SelectSeq(text, LAMBDA c : c # SP)

\* What the claim asks of one call: for a file of a recognized type no
\* marker is left with comment text right after it, and (doc comments
\* aside) nothing but spaces has changed; for any other file the text is
\* returned as it was.
Normalized(call, ext) ==
  IF ext \in SlashFamily \cup {".py"}
    THEN /\ ~HasBareMarker(call.out, ext)
         /\ (\A i \in 1..Len(call.in) : call.in[i] # "*")
              => Unspaced(call.out) = Unspaced(call.in)
  ELSE call.out = call.in

\* C15 as stated: normalize_comment_style leaves, in .js/.jsx/.ts/.tsx and
\* in .py files, every line-comment marker that is followed by comment text
\* followed by a single space, alters nothing else, and returns the text of
\* a file of any other type unchanged.
C15_MarkersGetOneSpace ==
  \A n \in 1..Len(ran) :
    ran[n].stage = "normalize" => Normalized(ran[n], FileExt(cur))

\* The same for all but the .py files: this much the code does.
C15_SlashMarkersGetOneSpace ==
  \A n \in 1..Len(ran) :
    (ran[n].stage = "normalize" /\ FileExt(cur) # ".py")
    => Normalized(ran[n], FileExt(cur))

\* The text of a .py file is returned as it was, whatever follows its `#`.
C15_HashTextUnchanged ==
  \A n \in 1..Len(ran) :
    (ran[n].stage = "normalize" /\ FileExt(cur) = ".py")
    => ran[n].out = ran[n].in

C15_Witness ==
  /\ Len(ran) = 1
  /\ ran[1].stage = "normalize"
  /\ FileExt(cur) = ".py"
  /\ ran[1].in = <<"#", "x">>

====
